---- MODULE Spec2Model ----
(***************************************************************************)
(* A model of the command-line parser of src/src/lib.rs: the recipe types  *)
(* Flag and Command, the builder of CliParser, and the recursive descent   *)
(* parse -> parse_next -> parse_flags / parse_next_flag / parse_flag ->     *)
(* parse_next_cmd -> parse_next.                                            *)
(*                                                                         *)
(* A String is a sequence of one-character strings, so that starts_with    *)
(* and the "--" normalisation of Flag::new are computed, not assumed.      *)
(* A HashMap is a function whose DOMAIN is its key set.  An Option is a     *)
(* sequence of length 0 (None) or 1 (Some).                                 *)
(***************************************************************************)
EXTENDS Integers, Sequences, FiniteSets, TLC

VARIABLES
    commands,      \* CliParser.commands : HashMap<String, Command>
    global_flags,  \* CliParser.global_flags : HashMap<String, Flag>
    args,          \* CliParser.args : the tokens not yet consumed
    parsed_flags,  \* CliParser.parsed_flags : HashMap<String, Flag>
    command,       \* the `command: &mut Option<Command>` of the current level
    pc,            \* position in the descent
    result,        \* what parse() gave back, once pc = "done"
    input,         \* history: the token sequence handed to from_args
    trace,         \* history: the role each consumed token was consumed in
    run            \* which parse of a comparison of two this is, and the
                   \* outcome of the first (one parse only under Spec)

vars == <<commands, global_flags, args, parsed_flags, command, pc, result,
          input, trace, run>>

---------------------------------------------------------------------------
(* Bounds of the model. *)

\* longest token sequence handed to from_args
MaxArgs == 4

\* longest flag name handed to Flag::new in the comparison of spellings
MaxRaw == 2

\* most bare tokens added after a parsed input
MaxBare == 2

---------------------------------------------------------------------------
(* Strings *)

Dash == <<"-">>
Marker == <<"-", "-">>

\* str::starts_with
StartsWith(s, p) == Len(s) >= Len(p) /\ SubSeq(s, 1, Len(p)) = p

\* Option
None == <<>>
Some(x) == <<x>>

\* a bug insertion could have: the entry of a key already there is kept
InsertKeepFirst(m, k, v) ==
    [x \in (DOMAIN m) \cup {k} |-> IF x \in DOMAIN m THEN m[x] ELSE v]

\* HashMap::new and HashMap::insert (the last write to a key wins)
EmptyMap == <<>>
Insert(m, k, v) == [x \in (DOMAIN m) \cup {k} |-> IF x = k THEN v ELSE m[x]]

---------------------------------------------------------------------------
(* Flag and its builder, lib.rs 82-119 *)

\* a bug Flag::new could have: the prefix is added without the starts_with test
FlagNewAlwaysPrefix(id) ==
    [id |-> Marker \o id, positional |-> FALSE, positional_val |-> None,
     required |-> FALSE]

FlagNew(id) ==
    [id |-> IF ~StartsWith(id, Marker) THEN Marker \o id ELSE id,
     positional |-> FALSE, positional_val |-> None, required |-> FALSE]

FlagPositional(flag) == [flag EXCEPT !.positional = TRUE]

FlagRequired(flag) == [flag EXCEPT !.required = TRUE]

(* Command and its builder, lib.rs 22-63 *)

CommandNew(id) ==
    [id |-> id, positional |-> FALSE, positional_val |-> None,
     flags |-> EmptyMap, parsed_flags |-> EmptyMap]

CommandPositional(cmd) == [cmd EXCEPT !.positional = TRUE]

CommandFlag(cmd, flag) == [cmd EXCEPT !.flags = Insert(cmd.flags, flag.id, flag)]

(* CliParser and its builder, lib.rs 193-216 *)

FromArgs(it) ==
    [commands |-> EmptyMap, args |-> it, global_flags |-> EmptyMap,
     parsed_flags |-> EmptyMap]

ParserCommand(p, cmd) ==
    [p EXCEPT !.commands = Insert(p.commands, cmd.id, cmd)]

ParserGlobalFlag(p, flag) ==
    [p EXCEPT !.global_flags = Insert(p.global_flags, flag.id, flag)]

---------------------------------------------------------------------------
(* The recipes and token sequences the model is run on. *)

NameC == <<"c">>
NameD == <<"d">>
NameF == <<"f">>
NameG == <<"g">>

\* the tokens an input is made of: two bare words and two flag tokens
Tokens == {NameC, NameD, Marker \o NameF, Marker \o NameG}

Inputs == UNION {[1..n -> Tokens] : n \in 0..MaxArgs}

\* Flag::new(raw) with each combination of .positional() and .required()
FlagVariants(raw) ==
    {FlagNew(raw), FlagPositional(FlagNew(raw)), FlagRequired(FlagNew(raw)),
     FlagRequired(FlagPositional(FlagNew(raw)))}

\* a flag that is registered, or not
OptFlag(raw) == {None} \cup {Some(f) : f \in FlagVariants(raw)}

WithFlag(cmd, o) == IF o = None THEN cmd ELSE CommandFlag(cmd, o[1])

WithGlobal(p, o) == IF o = None THEN p ELSE ParserGlobalFlag(p, o[1])

\* command "c": positional or not, with flag "f" (registered without the
\* prefix, as the tests do) and flag "--g", each in any variant or absent
CommandsC ==
    {WithFlag(WithFlag(b, lf), lg) :
        b \in {CommandNew(NameC), CommandPositional(CommandNew(NameC))},
        lf \in OptFlag(NameF), lg \in OptFlag(Marker \o NameG)}

\* the parser after the builder calls: command "c", command "d" or not,
\* global flag "--f" in any variant or absent
Build(it, c, withD, gf) ==
    LET p0 == ParserCommand(FromArgs(it), c)
        p1 == IF withD THEN ParserCommand(p0, CommandNew(NameD)) ELSE p0
    IN  WithGlobal(p1, gf)

---------------------------------------------------------------------------
(* Outcomes of parse(): Result<Command, ParseError>, or the panic of
   Option::unwrap on None. *)

Pending == [tag |-> "pending", err |-> "", arg |-> None, cmd |-> None]
Ok(cmd) == [tag |-> "ok", err |-> "", arg |-> None, cmd |-> Some(cmd)]
\* arg is the error's String payload, None for a variant without one
Err(kind, arg) == [tag |-> "err", err |-> kind, arg |-> arg, cmd |-> None]
Panic == [tag |-> "panic", err |-> "", arg |-> None, cmd |-> None]

\* the state after construction of parser p, about to call parse()
Start(p) ==
    /\ commands = p.commands
    /\ global_flags = p.global_flags
    /\ args = p.args
    /\ parsed_flags = p.parsed_flags
    /\ command = None
    /\ pc = "parse_flags"
    /\ result = Pending
    /\ input = p.args
    /\ trace = <<>>

SingleRun == [no |-> 1, choice |-> None, first |-> None]

Init ==
    \E it \in Inputs, c \in CommandsC, withD \in BOOLEAN,
       gf \in OptFlag(Marker \o NameF) :
        /\ Start(Build(it, c, withD, gf))
        /\ run = SingleRun

---------------------------------------------------------------------------
(* parse_flags and parse_next_flag, lib.rs 246-281 *)

\* the loop condition of parse_flags: peek().is_some_and(starts_with("-"))
NextIsFlag(rest) == rest # <<>> /\ StartsWith(Head(rest), Dash)

\* a bug the lookup could have: the active command's flags are tried first
ResolveLocalFirst(flag_str, globals, cmd) ==
    IF cmd # None /\ flag_str \in DOMAIN cmd[1].flags
    THEN [scope |-> "local", recipe |-> Some(cmd[1].flags[flag_str])]
    ELSE IF flag_str \in DOMAIN globals
    THEN [scope |-> "global", recipe |-> Some(globals[flag_str])]
    ELSE [scope |-> "invalid", recipe |-> None]

\* a bug the lookup could have: a required flag of the active command is
\* tried before the global namespace
ResolveRequiredFirst(flag_str, globals, cmd) ==
    IF /\ cmd # None
       /\ flag_str \in DOMAIN cmd[1].flags
       /\ cmd[1].flags[flag_str].required
    THEN [scope |-> "local", recipe |-> Some(cmd[1].flags[flag_str])]
    ELSE IF flag_str \in DOMAIN globals
    THEN [scope |-> "global", recipe |-> Some(globals[flag_str])]
    ELSE IF cmd # None /\ flag_str \in DOMAIN cmd[1].flags
    THEN [scope |-> "local", recipe |-> Some(cmd[1].flags[flag_str])]
    ELSE [scope |-> "invalid", recipe |-> None]

\* a bug the lookup could have: an unknown flag is taken as a plain flag
ResolveLenient(flag_str, globals, cmd) ==
    IF flag_str \in DOMAIN globals
    THEN [scope |-> "global", recipe |-> Some(globals[flag_str])]
    ELSE IF cmd # None /\ flag_str \in DOMAIN cmd[1].flags
    THEN [scope |-> "local", recipe |-> Some(cmd[1].flags[flag_str])]
    ELSE [scope |-> "global", recipe |-> Some(FlagNew(flag_str))]

\* the namespace a flag token is looked up in: global first, then the
\* active command's flags, else none
Resolve(flag_str, globals, cmd) ==
    IF flag_str \in DOMAIN globals
    THEN [scope |-> "global", recipe |-> Some(globals[flag_str])]
    ELSE IF cmd # None /\ flag_str \in DOMAIN cmd[1].flags
    THEN [scope |-> "local", recipe |-> Some(cmd[1].flags[flag_str])]
    ELSE [scope |-> "invalid", recipe |-> None]

\* a bug parse_flag could have: the value is consumed and not stored
ParseFlagDropsValue(flag_str, flag_recipe, rest) ==
    IF flag_recipe.positional
    THEN IF rest = <<>>
         THEN [err |-> Some("MissingPositional"), flag |-> None, args |-> rest]
         ELSE [err |-> None, flag |-> Some(FlagNew(flag_str)),
               args |-> Tail(rest)]
    ELSE [err |-> None, flag |-> Some(FlagNew(flag_str)), args |-> rest]

\* a bug parse_flag could have: a missing value is no error
ParseFlagNoError(flag_str, flag_recipe, rest) ==
    IF flag_recipe.positional /\ rest # <<>>
    THEN [err |-> None,
          flag |-> Some([FlagNew(flag_str) EXCEPT
                           !.positional_val = Some(Head(rest))]),
          args |-> Tail(rest)]
    ELSE [err |-> None, flag |-> Some(FlagNew(flag_str)), args |-> rest]

\* parse_flag, lib.rs 285-294: rest is args after the flag token
ParseFlag(flag_str, flag_recipe, rest) ==
    LET parsed_flag == FlagNew(flag_str)
    IN  IF flag_recipe.positional
        THEN IF rest = <<>>
             THEN [err |-> Some("MissingPositional"), flag |-> None,
                   args |-> rest]
             ELSE [err |-> None,
                   flag |-> Some([parsed_flag EXCEPT
                                    !.positional_val = Some(Head(rest))]),
                   args |-> Tail(rest)]
        ELSE [err |-> None, flag |-> Some(parsed_flag), args |-> rest]

\* parse() returns r
Return(r) ==
    /\ result' = r
    /\ pc' = "done"

\* the roles of the tokens a step consumed: the first as `role`, one more as
\* `value`
Consumed(before, after, role, value) ==
    IF Len(before) - Len(after) = 2 THEN <<role, value>> ELSE <<role>>

\* one iteration of the loop of parse_flags: parse_next_flag
ParseNextFlag ==
    /\ pc = "parse_flags"
    /\ NextIsFlag(args)
    /\ LET flag_str == Head(args)
           r == Resolve(flag_str, global_flags, command)
       IN  IF r.scope = "invalid"
           THEN /\ Return(Err("InvalidFlag", Some(flag_str)))
                /\ args' = Tail(args)
                /\ trace' = Append(trace, "invalid_flag")
                /\ UNCHANGED <<parsed_flags, command>>
           ELSE LET pf == ParseFlag(flag_str, r.recipe[1], Tail(args))
                IN  /\ args' = pf.args
                    /\ trace' = trace \o Consumed(args, pf.args,
                                    r.scope \o "_flag", "flag_value")
                    /\ IF pf.err # None
                       THEN /\ Return(Err(pf.err[1], None))
                            /\ UNCHANGED <<parsed_flags, command>>
                       ELSE /\ IF r.scope = "global"
                               THEN /\ parsed_flags' = Insert(parsed_flags,
                                                    flag_str, pf.flag[1])
                                    /\ UNCHANGED command
                               ELSE /\ command' = Some([command[1] EXCEPT
                                          !.parsed_flags =
                                            Insert(@, flag_str, pf.flag[1])])
                                    /\ UNCHANGED parsed_flags
                            /\ UNCHANGED <<pc, result>>
    /\ UNCHANGED <<commands, global_flags, input, run>>

---------------------------------------------------------------------------
(* parse_next after parse_flags has returned, lib.rs 228-243 *)

\* a bug the validation could have: no flag is ever found missing
MissingRequiredNever(cmd) == {}

\* a bug the validation could have: the required global flags are enforced
\* too
MissingRequiredWithGlobals(cmd) ==
    {id \in DOMAIN cmd.flags :
        cmd.flags[id].required /\ id \notin DOMAIN cmd.parsed_flags}
    \cup {id \in DOMAIN global_flags :
            global_flags[id].required /\ id \notin DOMAIN parsed_flags}

\* the required flags of cmd that are not keys of its parsed_flags
MissingRequired(cmd) ==
    {id \in DOMAIN cmd.flags :
        cmd.flags[id].required /\ id \notin DOMAIN cmd.parsed_flags}

\* a bug parse_next could have: the required flags are validated only when
\* no token is left
ParseNextValidatesAtEnd ==
    /\ pc = "parse_flags"
    /\ ~NextIsFlag(args)
    /\ IF args # <<>>
       THEN /\ pc' = "parse_next_cmd"
            /\ UNCHANGED result
       ELSE IF command # None /\ MissingRequired(command[1]) # {}
       THEN \E id \in MissingRequired(command[1]) :
                Return(Err("MissingRequiredFlag", Some(id)))
       ELSE IF command = None
       THEN Return(Panic)
       ELSE Return(Ok(command[1]))
    /\ UNCHANGED <<commands, global_flags, args, parsed_flags, command,
                   input, trace, run>>

\* The loop over command.flags.iter() fails at the first missing required
\* flag it meets; a HashMap iterates in an unspecified order, so that is any
\* of them.
ParseNext ==
    /\ pc = "parse_flags"
    /\ ~NextIsFlag(args)
    /\ IF command # None /\ MissingRequired(command[1]) # {}
       THEN \E id \in MissingRequired(command[1]) :
                Return(Err("MissingRequiredFlag", Some(id)))
       ELSE IF args # <<>>
       THEN /\ pc' = "parse_next_cmd"
            /\ UNCHANGED result
       ELSE IF command = None
       THEN Return(Panic)            \* command.to_owned().unwrap() on None
       ELSE Return(Ok(command[1]))
    /\ UNCHANGED <<commands, global_flags, args, parsed_flags, command,
                   input, trace, run>>

---------------------------------------------------------------------------
(* parse_next_cmd, lib.rs 297-321 *)

\* a bug the selection could have: an unknown name makes a fresh command
SelectRecipeLenient(cmd, cmds, cmd_str) ==
    IF cmd # None THEN cmd
    ELSE IF cmd_str \in DOMAIN cmds THEN Some(cmds[cmd_str])
    ELSE Some(CommandNew(cmd_str))

\* a bug the selection could have: every bare token is looked up in the
\* command namespace, a command being active or not
SelectRecipeSwitch(cmd, cmds, cmd_str) ==
    IF cmd_str \in DOMAIN cmds THEN Some(cmds[cmd_str]) ELSE None

\* a bug the selection could have: a new level starts from the namespace's
\* recipe of the active command, which has no parsed flags
SelectRecipeFresh(cmd, cmds, cmd_str) ==
    IF cmd # None THEN Some(cmds[cmd[1].id])
    ELSE IF cmd_str \in DOMAIN cmds THEN Some(cmds[cmd_str])
    ELSE None

\* the recipe the level goes on with: the active command as it is, or the
\* command namespace's entry for cmd_str
SelectRecipe(cmd, cmds, cmd_str) ==
    IF cmd # None THEN cmd
    ELSE IF cmd_str \in DOMAIN cmds THEN Some(cmds[cmd_str])
    ELSE None

\* a bug the value step could have: a command that has its value takes no
\* second one
TakePositionalOnce(cmd_recipe, rest) ==
    IF cmd_recipe.positional /\ cmd_recipe.positional_val = None
    THEN IF rest = <<>>
         THEN [err |-> Some("ExpectedPositional"), cmd |-> cmd_recipe,
               args |-> rest]
         ELSE [err |-> None,
               cmd |-> [cmd_recipe EXCEPT !.positional_val = Some(Head(rest))],
               args |-> Tail(rest)]
    ELSE [err |-> None, cmd |-> cmd_recipe, args |-> rest]

\* a bug the value step could have: a value is taken whether or not the
\* command takes a positional
TakePositionalAlways(cmd_recipe, rest) ==
    IF rest = <<>>
    THEN [err |-> Some("ExpectedPositional"), cmd |-> cmd_recipe,
          args |-> rest]
    ELSE [err |-> None,
          cmd |-> [cmd_recipe EXCEPT !.positional_val = Some(Head(rest))],
          args |-> Tail(rest)]

\* lib.rs 313-318: rest is args after the command token
TakePositional(cmd_recipe, rest) ==
    IF cmd_recipe.positional
    THEN IF rest = <<>>
         THEN [err |-> Some("ExpectedPositional"), cmd |-> cmd_recipe,
               args |-> rest]
         ELSE [err |-> None,
               cmd |-> [cmd_recipe EXCEPT !.positional_val = Some(Head(rest))],
               args |-> Tail(rest)]
    ELSE [err |-> None, cmd |-> cmd_recipe, args |-> rest]

ParseNextCmd ==
    /\ pc = "parse_next_cmd"
    /\ IF args = <<>>
       THEN /\ Return(Err("ExpectedCommand", None))
            /\ UNCHANGED <<args, command, trace>>
       ELSE LET cmd_str == Head(args)
                cmd_recipe == SelectRecipe(command, commands, cmd_str)
            IN  IF cmd_recipe = None
                THEN /\ Return(Err("InvalidCommand", Some(cmd_str)))
                     /\ args' = Tail(args)
                     /\ trace' = Append(trace, "invalid_command")
                     /\ UNCHANGED command
                ELSE LET tp == TakePositional(cmd_recipe[1], Tail(args))
                     IN  /\ args' = tp.args
                         /\ trace' = trace \o Consumed(args, tp.args,
                                IF command = None THEN "command"
                                                  ELSE "continue",
                                "command_value")
                         /\ IF tp.err # None
                            THEN /\ Return(Err(tp.err[1], None))
                                 /\ UNCHANGED command
                            ELSE /\ command' = Some(tp.cmd)
                                 /\ pc' = "parse_flags"
                                 /\ UNCHANGED result
    /\ UNCHANGED <<commands, global_flags, parsed_flags, input, run>>

---------------------------------------------------------------------------

Next == ParseNextFlag \/ ParseNext \/ ParseNextCmd

Spec == Init /\ [][Next]_vars

---------------------------------------------------------------------------
(* Vocabulary of the properties *)

Done == pc = "done"

\* the tokens of a sequence
Range(s) == {s[i] : i \in 1..Len(s)}

\* the positions of the consumed tokens whose role is in roles
Positions(roles) == {i \in 1..Len(trace) : trace[i] \in roles}

FlagRoles == {"global_flag", "local_flag"}

\* trace names the consumed tokens, one role each
TraceAligned == Len(trace) = Len(input) - Len(args) /\ Len(trace) <= Len(input)

\* the command parse() returned
Returned == result.cmd[1]

\* a command was selected: the level has an active command
Selected == command # None

---------------------------------------------------------------------------
(* C1 *)

\* C1: when the tokens run out while no command has been selected (the
\* empty sequence, or only registered global flags and their values),
\* parse() returns an explicit error: no panic, no command.
C1_NoCommandIsError ==
    (/\ Done
     /\ ~Selected
     /\ args = <<>>
     /\ \A i \in 1..Len(trace) : trace[i] \in {"global_flag", "flag_value"})
    => result.tag = "err"

---------------------------------------------------------------------------
(* C2 *)

\* C2: on a successful parse every matched flag token, global or local, is
\* a key of the returned command's parsed_flags.
C2_MatchedFlagsReturned ==
    result.tag = "ok" =>
        \A i \in Positions(FlagRoles) : input[i] \in DOMAIN Returned.parsed_flags

---------------------------------------------------------------------------
(* C3 *)

\* the recipe of the command the input selected: the namespace's entry for
\* the token consumed as the command name
SelectedRecipe == commands[input[CHOOSE i \in Positions({"command"}) : TRUE]]

\* the input selected a command
Named == Positions({"command"}) # {}

\* the required local flags of the selected command whose token is nowhere
\* in the input
RequiredAbsent ==
    {id \in DOMAIN SelectedRecipe.flags :
        SelectedRecipe.flags[id].required /\ id \notin Range(input)}

\* C3 as stated: a sequence that selects a command and lacks the token of a
\* required local flag fails with MissingRequiredFlag carrying that flag's
\* name.
C3_AlwaysMissingRequiredFlag ==
    (Done /\ Named) =>
        \A id \in RequiredAbsent :
            result = Err("MissingRequiredFlag", Some(id))

\* C3 amended: such a sequence never parses. It fails with
\* ExpectedPositional when the command's own value is missing, with
\* InvalidFlag or MissingPositional while the flags after the command are
\* drained, or else at the first validation with MissingRequiredFlag
\* carrying the "--"-prefixed name of a required local flag that was not
\* matched, which is that flag's name when no other required flag is
\* unmatched.
C3_RequiredAbsentFails ==
    (Done /\ Named /\ RequiredAbsent # {}) =>
        /\ result.tag = "err"
        /\ result.err \in {"MissingRequiredFlag", "InvalidFlag",
                           "MissingPositional", "ExpectedPositional"}
        /\ Positions({"continue"}) = {}
        /\ result.err = "ExpectedPositional" =>
              SelectedRecipe.positional /\ trace[Len(trace)] = "command"
        /\ result.err \in {"InvalidFlag", "MissingPositional"} =>
              trace[Len(trace)] \in FlagRoles \cup {"invalid_flag"}
        /\ result.err = "MissingRequiredFlag" =>
              /\ Selected
              /\ result.arg # None
              /\ result.arg[1] \in MissingRequired(command[1])
              /\ StartsWith(result.arg[1], Marker)
              /\ \A id \in RequiredAbsent :
                    MissingRequired(command[1]) = {id} => result.arg = Some(id)

\* C3's case: "c" was selected, its required flag "--f" (registered as "f")
\* is not in the input, and parse() failed with MissingRequiredFlag("--f")
C3_Witness ==
    /\ Done
    /\ Named
    /\ Marker \o NameF \in RequiredAbsent
    /\ result = Err("MissingRequiredFlag", Some(Marker \o NameF))

---------------------------------------------------------------------------
(* C4 *)

\* the next token is a flag token that is a key of the global namespace and
\* of the active command's local namespace
Collision ==
    /\ pc = "parse_flags"
    /\ NextIsFlag(args)
    /\ Head(args) \in DOMAIN global_flags
    /\ Selected
    /\ Head(args) \in DOMAIN command[1].flags

\* C4: a token whose name is both a global and a local flag is resolved with
\* the global recipe: its positional setting alone decides whether the next
\* token is consumed as the value, and the command's parsed_flags is left
\* alone.
C4_GlobalRecipeDecides ==
    [][Collision =>
        LET tok == Head(args)
        IN  /\ command' = command
            /\ IF global_flags[tok].positional
               THEN IF Len(args) = 1
                    THEN /\ args' = <<>>
                         /\ result' = Err("MissingPositional", None)
                    ELSE /\ args' = SubSeq(args, 3, Len(args))
                         /\ tok \in DOMAIN parsed_flags'
                         /\ parsed_flags'[tok].positional_val = Some(args[2])
                         /\ result' = result
               ELSE /\ args' = Tail(args)
                    /\ tok \in DOMAIN parsed_flags'
                    /\ parsed_flags'[tok].positional_val = None
                    /\ result' = result]_vars

\* C4's case: after the command, a token was matched as a global flag whose
\* name is also a local flag with the other positional setting
C4_Witness ==
    /\ Selected
    /\ \E i \in Positions({"global_flag"}) :
          /\ \E k \in Positions({"command"}) : k < i
          /\ input[i] \in DOMAIN command[1].flags
          /\ command[1].flags[input[i]].positional #
                global_flags[input[i]].positional

---------------------------------------------------------------------------
(* C5 *)

\* the next token is a flag token that is a key of neither the global
\* namespace nor, with a command active, its local namespace
UnknownFlagNext ==
    /\ pc = "parse_flags"
    /\ NextIsFlag(args)
    /\ Head(args) \notin DOMAIN global_flags
    /\ Selected => Head(args) \notin DOMAIN command[1].flags

\* C5: in flag draining an unknown flag token ends the parse with
\* InvalidFlag carrying that token; a local flag before the command is such
\* a token; none is skipped.
C5_UnknownFlagRejected ==
    [][UnknownFlagNext =>
        /\ pc' = "done"
        /\ result' = Err("InvalidFlag", Some(Head(args)))]_vars

\* C5's case: a local flag of "c" came before any command and was rejected
C5_Witness ==
    /\ Done
    /\ ~Named
    /\ trace # <<>>
    /\ trace[Len(trace)] = "invalid_flag"
    /\ input[Len(trace)] \in DOMAIN commands[NameC].flags
    /\ result = Err("InvalidFlag", Some(input[Len(trace)]))

---------------------------------------------------------------------------
(* C6 *)

\* no token of the input begins with "-"
NoFlagTokens == \A i \in 1..Len(input) : ~StartsWith(input[i], Dash)

\* C6: when no token begins with "-" and the first token is not a key of
\* the command namespace, parse() fails with InvalidCommand(first token).
C6_UnknownFirstToken ==
    (Done /\ input # <<>> /\ NoFlagTokens /\ input[1] \notin DOMAIN commands)
    => result = Err("InvalidCommand", Some(input[1]))

\* C6's case: several bare tokens, the first not a command
C6_Witness ==
    /\ Done
    /\ Len(input) > 1
    /\ NoFlagTokens
    /\ input[1] \notin DOMAIN commands
    /\ result = Err("InvalidCommand", Some(input[1]))

---------------------------------------------------------------------------
(* C7 *)

\* rest is a run of flags of the namespace `flags`, each followed by one
\* value token exactly when its recipe takes a positional
RECURSIVE FlagRun(_, _)
FlagRun(flags, rest) ==
    \/ rest = <<>>
    \/ /\ Head(rest) \in DOMAIN flags
       /\ IF flags[Head(rest)].positional
          THEN Len(rest) >= 2 /\ FlagRun(flags, SubSeq(rest, 3, Len(rest)))
          ELSE FlagRun(flags, Tail(rest))

\* the values such a run supplies, by flag name (the last one of a flag
\* supplied twice)
RECURSIVE Supplied(_, _, _)
Supplied(flags, rest, acc) ==
    IF rest = <<>> THEN acc
    ELSE IF flags[Head(rest)].positional
    THEN Supplied(flags, SubSeq(rest, 3, Len(rest)),
                  Insert(acc, Head(rest), Some(rest[2])))
    ELSE Supplied(flags, Tail(rest), Insert(acc, Head(rest), None))

\* the tokens after the command and its value
AfterCommand ==
    SubSeq(input, IF commands[input[1]].positional THEN 3 ELSE 2, Len(input))

\* the input has the shape [command, value iff positional, flag run]
Shape ==
    /\ input # <<>>
    /\ input[1] \in DOMAIN commands
    /\ commands[input[1]].positional => Len(input) >= 2
    /\ FlagRun(commands[input[1]].flags, AfterCommand)

ShapeSupplied == Supplied(commands[input[1]].flags, AfterCommand, EmptyMap)

\* parse() returned the command of the shape: its id, its value, and the
\* supplied flags with their values
ShapeResult ==
    /\ result.tag = "ok"
    /\ Returned.id = input[1]
    /\ Returned.positional_val =
          (IF commands[input[1]].positional THEN Some(input[2]) ELSE None)
    /\ DOMAIN Returned.parsed_flags = DOMAIN ShapeSupplied
    /\ \A id \in DOMAIN ShapeSupplied :
          /\ Returned.parsed_flags[id].id = id
          /\ Returned.parsed_flags[id].positional_val = ShapeSupplied[id]

\* C7 as stated: every input of the shape parses to the shape's command.
C7_ShapeAlwaysParses == (Done /\ Shape) => ShapeResult

\* every required local flag of the command is among the supplied flags
RequiredSupplied ==
    \A id \in DOMAIN commands[input[1]].flags :
        commands[input[1]].flags[id].required => id \in DOMAIN ShapeSupplied

\* no supplied flag is also a key of the global namespace
NoGlobalSupplied == DOMAIN ShapeSupplied \cap DOMAIN global_flags = {}

\* C7 amended: an input of the shape that supplies every required local
\* flag of the command, and no flag whose name is also a global flag,
\* parses to the command's id, its value (None if it takes none) and a
\* parsed_flags whose keys are exactly the supplied flag names, each with
\* the value supplied with it (with its last occurrence, if repeated) or no
\* value.
C7_ShapeParses ==
    (Done /\ Shape /\ RequiredSupplied /\ NoGlobalSupplied) => ShapeResult

\* C7's case: a shape with two flags, one with a value, has been parsed
C7_Witness ==
    /\ Done
    /\ Shape /\ RequiredSupplied /\ NoGlobalSupplied
    /\ ShapeResult
    /\ Cardinality(DOMAIN Returned.parsed_flags) = 2
    /\ \E id \in DOMAIN Returned.parsed_flags :
          Returned.parsed_flags[id].positional_val # None

---------------------------------------------------------------------------
(* C8 *)

\* the position of the command-name token
CommandPos == CHOOSE i \in Positions({"command"}) : TRUE

\* the position of the last token consumed in command position: the command
\* name, or a later bare token that continued the command
LastCommandPos ==
    CHOOSE i \in Positions({"command", "continue"}) :
        \A j \in Positions({"command", "continue"}) : j <= i

\* the returned value is the token at position i, for a command that takes
\* a positional, and None for one that takes none
ReturnedValueAt(i) ==
    IF Returned.positional
    THEN i <= Len(input) /\ Returned.positional_val = Some(input[i])
    ELSE Returned.positional_val = None

\* C8 as stated: the returned positional value is the token right after the
\* command-name token.
C8_ValueFollowsCommandName ==
    result.tag = "ok" => ReturnedValueAt(CommandPos + 1)

\* C8 amended: the returned positional value is the token right after the
\* last token consumed in command position (the command name, or the last
\* bare token that continued the command, which takes a value again); for a
\* command that takes no positional it is None.
C8_ValueFollowsLastCommandToken ==
    result.tag = "ok" => ReturnedValueAt(LastCommandPos + 1)

\* C8's case: a positional command was continued by a bare token and
\* returned the value that followed it
C8_Witness ==
    /\ result.tag = "ok"
    /\ Returned.positional
    /\ Positions({"continue"}) # {}
    /\ Returned.positional_val = Some(input[LastCommandPos + 1])
    /\ Returned.positional_val # Some(input[CommandPos + 1])

---------------------------------------------------------------------------
(* C9 *)

\* the last token of the input was consumed as a flag
LastTokenIsFlag ==
    /\ input # <<>>
    /\ Len(trace) = Len(input)
    /\ trace[Len(trace)] \in FlagRoles

\* the recipe the last token was matched against
LastFlagRecipe == Resolve(input[Len(input)], global_flags, command).recipe[1]

\* C9: a matched flag that takes a positional and is the last token fails
\* the parse with MissingPositional, whatever required flags are unmatched.
C9_MissingPositionalFirst ==
    (LastTokenIsFlag /\ LastFlagRecipe.positional)
    => (Done /\ result = Err("MissingPositional", None))

\* C9's case (scenario 4): the last token is a required local flag that
\* takes a positional, so a required flag is unmatched when the parse fails
C9_Witness ==
    /\ LastTokenIsFlag
    /\ LastFlagRecipe.positional
    /\ Selected
    /\ input[Len(input)] \in MissingRequired(command[1])
    /\ result = Err("MissingPositional", None)

---------------------------------------------------------------------------
(* Two parses of the same tokens, the recipes differing in the spelling of
   one flag name: Flag::new(raw) in the first, Flag::new("--" + raw) in the
   second. *)

\* the names without the prefix: every string of "-" and "f" up to MaxRaw
\* long that does not begin with "--" (the empty name included)
RawNames ==
    {n \in UNION {[1..k -> {"-", "f"}] : k \in 0..MaxRaw} :
        ~StartsWith(n, Marker)}

\* the tokens of the comparison: two bare words, the name as it is, and the
\* name with the prefix
TokensNorm(raw) == {NameC, NameD, raw, Marker \o raw}

InputsNorm(raw) == UNION {[1..n -> TokensNorm(raw)] : n \in 0..MaxArgs}

\* what the two recipes share: the variant and the namespace of the flag,
\* and whether command "c" takes a positional
Choices ==
    [raw : RawNames, positional : BOOLEAN, required : BOOLEAN,
     scope : {"local", "global"}, cmdPositional : BOOLEAN]

\* the parser built with the flag registered as `name`
BuildNorm(it, ch, name) ==
    LET f0 == FlagNew(name)
        f1 == IF ch.positional THEN FlagPositional(f0) ELSE f0
        f2 == IF ch.required THEN FlagRequired(f1) ELSE f1
        c0 == IF ch.cmdPositional THEN CommandPositional(CommandNew(NameC))
                                  ELSE CommandNew(NameC)
    IN  IF ch.scope = "local"
        THEN ParserCommand(FromArgs(it), CommandFlag(c0, f2))
        ELSE ParserGlobalFlag(ParserCommand(FromArgs(it), c0), f2)

InitNorm ==
    \E ch \in Choices :
        \E it \in InputsNorm(ch.raw) :
            /\ Start(BuildNorm(it, ch, ch.raw))
            /\ run = [no |-> 1, choice |-> Some(ch), first |-> None]

\* the first parse is over: keep what it gave, and parse the same tokens
\* with the flag registered under the prefixed spelling
SecondRun ==
    /\ Done
    /\ run.no = 1
    /\ run.choice # None
    /\ LET ch == run.choice[1]
           p == BuildNorm(input, ch, Marker \o ch.raw)
       IN  /\ commands' = p.commands
           /\ global_flags' = p.global_flags
           /\ args' = p.args
           /\ parsed_flags' = p.parsed_flags
    /\ command' = None
    /\ pc' = "parse_flags"
    /\ result' = Pending
    /\ trace' = <<>>
    /\ run' = [run EXCEPT !.no = 2,
                  !.first = Some([result |-> result,
                                  parsed_flags |-> parsed_flags,
                                  trace |-> trace])]
    /\ UNCHANGED input

NextNorm == Next \/ SecondRun

SpecNorm == InitNorm /\ [][NextNorm]_vars

---------------------------------------------------------------------------
(* C10 *)

\* every flag recipe of the parser
RegisteredFlags ==
    {global_flags[k] : k \in DOMAIN global_flags} \cup
    UNION {{commands[c].flags[k] : k \in DOMAIN commands[c].flags} :
              c \in DOMAIN commands}

\* C10: Flag::new gives the same id for a name with and without "--", an
\* id that is not empty, begins with "--" and is a fixed point of
\* Flag::new; and the parses of one token sequence under the two spellings
\* end alike: same result (returned command or error and payload), same
\* global matches, same role for every token.
C10_SpellingInsensitive ==
    /\ \A f \in RegisteredFlags :
          /\ f.id # <<>>
          /\ StartsWith(f.id, Marker)
          /\ FlagNew(f.id).id = f.id
    /\ run.choice # None =>
          /\ FlagNew(Marker \o run.choice[1].raw).id =
                FlagNew(run.choice[1].raw).id
          /\ FlagNew(run.choice[1].raw) \in
                {[f EXCEPT !.positional = FALSE, !.required = FALSE] :
                    f \in RegisteredFlags}
    /\ (Done /\ run.no = 2) =>
          /\ result = run.first[1].result
          /\ parsed_flags = run.first[1].parsed_flags
          /\ trace = run.first[1].trace

\* C10's case: the flag registered as "f", then as "--f", was matched with
\* a value in both parses of the same tokens
C10_Witness ==
    /\ Done
    /\ run.no = 2
    /\ run.choice[1].raw = NameF
    /\ result.tag = "ok"
    /\ result = run.first[1].result
    /\ Marker \o NameF \in DOMAIN Returned.parsed_flags
    /\ Returned.parsed_flags[Marker \o NameF].positional_val # None

---------------------------------------------------------------------------
(* C11 *)

\* C11: once a command is active its id stays: no later step changes it,
\* fails with InvalidCommand, or returns a command with another id, also
\* when a later bare token names another registered command.
C11_ActiveCommandStays ==
    [][Selected =>
        /\ command' # None
        /\ command'[1].id = command[1].id
        /\ result'.err # "InvalidCommand"
        /\ result'.tag = "ok" => result'.cmd[1].id = command[1].id]_vars

\* C11's case: with "c" active a bare token that names the registered
\* command "d" was consumed, and the parse returned "c"
C11_Witness ==
    /\ result.tag = "ok"
    /\ Returned.id = NameC
    /\ Returned.id = input[CommandPos]
    /\ \E i \in Positions({"continue"}) :
          input[i] = NameD /\ NameD \in DOMAIN commands

---------------------------------------------------------------------------
(* A second parser, built after the first parse is over: the same commands,
   the global namespace `globals`, the tokens `it`.  What the first parse
   gave is kept in run.first. *)

Again(globals, it) ==
    /\ commands' = commands
    /\ global_flags' = globals
    /\ args' = it
    /\ input' = it
    /\ parsed_flags' = EmptyMap
    /\ command' = None
    /\ pc' = "parse_flags"
    /\ result' = Pending
    /\ trace' = <<>>
    /\ run' = [run EXCEPT !.no = 2,
                  !.first = Some([result |-> result,
                                  parsed_flags |-> parsed_flags,
                                  trace |-> trace,
                                  global_flags |-> global_flags])]

\* the first parse is over and was the only one so far
FirstRunOver == Done /\ run.no = 1 /\ run.choice = None

\* the second parse is over
SecondRunOver == Done /\ run.no = 2

---------------------------------------------------------------------------
(* C12 *)

\* the global namespace with no flag marked required
NotRequired(globals) ==
    [k \in DOMAIN globals |-> [globals[k] EXCEPT !.required = FALSE]]

\* the same tokens parsed again, the global flags registered without
\* .required()
RunNotRequired ==
    /\ FirstRunOver
    /\ Again(NotRequired(global_flags), input)

NextReq == Next \/ RunNotRequired

SpecReq == Init /\ [][NextReq]_vars

\* C12: MissingRequiredFlag names only an unmatched required local flag of
\* the active command, and a parse ends as it does with the global flags not
\* marked required: the same result (up to which of several unmatched
\* required local flags is named) and the same global matches.
C12_GlobalRequiredIgnored ==
    /\ result.err = "MissingRequiredFlag" =>
          /\ Selected
          /\ result.arg # None
          /\ result.arg[1] \in DOMAIN command[1].flags
          /\ command[1].flags[result.arg[1]].required
          /\ result.arg[1] \notin DOMAIN command[1].parsed_flags
    /\ SecondRunOver =>
          /\ parsed_flags = run.first[1].parsed_flags
          /\ \/ result = run.first[1].result
             \/ /\ result.err = "MissingRequiredFlag"
                /\ run.first[1].result.err = "MissingRequiredFlag"

\* C12's case: a required global flag is not in the input, and the parse
\* succeeded as it does without .required()
C12_Witness ==
    /\ SecondRunOver
    /\ result.tag = "ok"
    /\ result = run.first[1].result
    /\ \E id \in DOMAIN global_flags :
          /\ id \notin Range(input)
          /\ run.first[1].global_flags[id].required
          /\ ~global_flags[id].required

---------------------------------------------------------------------------
(* C13 *)

\* what decreases with every step that does not end the parse: the tokens
\* left, and within one level the flag phase before the command step
Measure == 2 * Len(args) + (IF pc = "parse_flags" THEN 1 ELSE 0)

\* a step moves the cursor forward only, consumes a token when it is a flag
\* iteration or a command step, ends the parse when no token is left, and
\* otherwise ends it or lowers Measure
StepProgress ==
    /\ \E k \in 0..Len(args) : args' = SubSeq(args, k + 1, Len(args))
    /\ (pc = "parse_flags" /\ NextIsFlag(args)) => Len(args') < Len(args)
    /\ pc = "parse_next_cmd" => Len(args') < Len(args)
    /\ args = <<>> => pc' = "done"
    /\ pc' = "done" \/ Measure' < Measure

\* the progress part alone
ParseProgresses == [][StepProgress]_vars

\* C13: parse() terminates: every step makes progress as above, and the
\* parse ends in a returned command or an error.
C13_TerminatesWithResult ==
    [][/\ StepProgress
       /\ pc' = "done" => result'.tag \in {"ok", "err"}]_vars

---------------------------------------------------------------------------
(* C14 *)

\* the required local flags of the selected command that are also keys of
\* the global namespace
RequiredShadowed ==
    {id \in DOMAIN SelectedRecipe.flags \cap DOMAIN global_flags :
        SelectedRecipe.flags[id].required}

\* C14: when the selected command has a required local flag whose name is
\* also a global flag, that name is never a key of the command's
\* parsed_flags, its token is matched as a global flag only, and the parse
\* never succeeds: it ends with MissingRequiredFlag at the first
\* validation, or with an earlier error.
C14_ShadowedRequiredNeverParses ==
    (Named /\ RequiredShadowed # {}) =>
        /\ Selected =>
              RequiredShadowed \cap DOMAIN command[1].parsed_flags = {}
        /\ \A i \in Positions({"local_flag"}) : input[i] \notin RequiredShadowed
        /\ Positions({"continue"}) = {}
        /\ Done =>
              /\ result.tag = "err"
              /\ result.err \in {"MissingRequiredFlag", "InvalidFlag",
                                 "MissingPositional", "ExpectedPositional"}
              /\ result.err = "MissingRequiredFlag" =>
                    result.arg[1] \in MissingRequired(command[1])

\* C14's case: the shadowed required flag's token came after the command,
\* was matched as a global flag, and the parse failed with
\* MissingRequiredFlag naming it
C14_Witness ==
    /\ Done
    /\ Named
    /\ \E i \in Positions({"global_flag"}) :
          /\ CommandPos < i
          /\ input[i] \in RequiredShadowed
          /\ result = Err("MissingRequiredFlag", Some(input[i]))

---------------------------------------------------------------------------
(* C15 *)

\* the required local flags of the selected command
RequiredLocal ==
    {id \in DOMAIN SelectedRecipe.flags : SelectedRecipe.flags[id].required}

\* the names matched as local flags at positions below i
LocalMatchedBefore(i) ==
    {input[j] : j \in {p \in Positions({"local_flag"}) : p < i}}

\* C15: validation ends every flag-draining phase of an active command, so
\* a bare token is consumed after the command only when every required
\* local flag was matched in the flags before it; a parse whose first run
\* of flags lacks one fails with MissingRequiredFlag (unless draining that
\* run failed with InvalidFlag or MissingPositional), whatever tokens
\* follow the run.
C15_RequiredInFirstRun ==
    Named =>
        /\ \A i \in Positions({"continue"}) :
              RequiredLocal \subseteq LocalMatchedBefore(i)
        /\ (/\ pc = "parse_next_cmd"
            /\ Selected) => MissingRequired(command[1]) = {}
        /\ (/\ Done
            /\ Selected
            /\ MissingRequired(command[1]) # {}
            /\ result.err \notin {"InvalidFlag", "MissingPositional"}) =>
              /\ result.err = "MissingRequiredFlag"
              /\ result.arg[1] \in MissingRequired(command[1])

\* C15's case ([cmd, extra, --req]): the parse failed with
\* MissingRequiredFlag(--req) at a bare token, and --req's token is among
\* the tokens never consumed
C15_Witness ==
    /\ Done
    /\ Selected
    /\ args # <<>>
    /\ ~NextIsFlag(args)
    /\ result.err = "MissingRequiredFlag"
    /\ result.arg[1] \in Range(Tail(args))
    /\ result.arg[1] \notin DOMAIN global_flags

---------------------------------------------------------------------------
(* C16 *)

\* the step matches the flag token `id`
Matches(id) == pc = "parse_flags" /\ NextIsFlag(args) /\ Head(args) = id

\* C16: the active command's parsed_flags only grows: every step keeps its
\* keys, and their values unless the step matches that flag again, also the
\* step of a bare token that starts a new level; and the command returned is
\* the active command with the map so grown.
C16_ParsedFlagsGrow ==
    [][Selected =>
        /\ command' # None
        /\ DOMAIN command[1].parsed_flags \subseteq
              DOMAIN command'[1].parsed_flags
        /\ \A id \in DOMAIN command[1].parsed_flags :
              \/ command'[1].parsed_flags[id] = command[1].parsed_flags[id]
              \/ Matches(id)
        /\ result'.tag = "ok" =>
              result'.cmd[1].parsed_flags = command[1].parsed_flags]_vars

\* C16's case: a local flag was matched, then a bare token started a new
\* level, then another local flag, and the returned command holds both
C16_Witness ==
    /\ result.tag = "ok"
    /\ \E i, j, k \in 1..Len(trace) :
          /\ i < j /\ j < k
          /\ trace[i] = "local_flag"
          /\ trace[j] = "continue"
          /\ trace[k] = "local_flag"
          /\ input[i] # input[k]
          /\ {input[i], input[k]} \subseteq DOMAIN Returned.parsed_flags

---------------------------------------------------------------------------
(* C17 *)

\* the bare tokens, and the runs of them that are added
BareTokens == {t \in Tokens : ~StartsWith(t, Dash)}

BareRuns == UNION {[1..n -> BareTokens] : n \in 1..MaxBare}

\* the first parse returned a command that takes no positional: the same
\* tokens are parsed again with bare tokens added at the end
RunWithBare ==
    /\ FirstRunOver
    /\ result.tag = "ok"
    /\ ~Returned.positional
    /\ \E extra \in BareRuns : Again(global_flags, input \o extra)

NextBare == Next \/ RunWithBare

SpecBare == Init /\ [][NextBare]_vars

\* C17: a parse that returns a command has consumed every token; and for a
\* command that takes no positional, bare tokens added after a
\* successfully parsed input are consumed one by one with no other effect:
\* the parse returns the same command (id, value, parsed flags) and has the
\* same global matches.
C17_BareTokensDiscarded ==
    /\ result.tag = "ok" => (args = <<>> /\ Len(trace) = Len(input))
    /\ SecondRunOver =>
          /\ result = run.first[1].result
          /\ parsed_flags = run.first[1].parsed_flags
          /\ \A i \in 1..Len(input) :
                trace[i] = IF i <= Len(run.first[1].trace)
                           THEN run.first[1].trace[i] ELSE "continue"

\* C17's case: two bare tokens were added to an input with a matched local
\* flag, and the same command came back
C17_Witness ==
    /\ SecondRunOver
    /\ result.tag = "ok"
    /\ result = run.first[1].result
    /\ Len(input) = Len(run.first[1].trace) + 2
    /\ DOMAIN Returned.parsed_flags # {}

---------------------------------------------------------------------------
(* C18 *)

\* a second parser is built with the same recipe on the same arguments and
\* parsed
RunAgain == FirstRunOver /\ Again(global_flags, input)

NextTwice == Next \/ RunAgain

SpecTwice == Init /\ [][NextTwice]_vars

\* C18: two parses with the same recipe and the same tokens end with the
\* same outcome, error payload included, and the same global matches.
C18_Deterministic ==
    SecondRunOver =>
        /\ result = run.first[1].result
        /\ parsed_flags = run.first[1].parsed_flags
        /\ trace = run.first[1].trace

\* what the two parses do share: everything but the name carried by
\* MissingRequiredFlag
RunsAgreeButPayload ==
    SecondRunOver =>
        /\ parsed_flags = run.first[1].parsed_flags
        /\ trace = run.first[1].trace
        /\ \/ result = run.first[1].result
           \/ /\ result.err = "MissingRequiredFlag"
              /\ run.first[1].result.err = "MissingRequiredFlag"

---------------------------------------------------------------------------
(* C19 *)

\* the inputs that begin with the command name "c", long enough for a flag
\* to be given twice with a value
InputsDup == {<<NameC>> \o it : it \in Inputs}

InitDup ==
    \E it \in InputsDup, c \in CommandsC, withD \in BOOLEAN,
       gf \in OptFlag(Marker \o NameF) :
        /\ Start(Build(it, c, withD, gf))
        /\ run = SingleRun

SpecDup == InitDup /\ [][Next]_vars

\* the positions where `id` was matched as a local flag, and the last one
LocalMatches(id) == {i \in Positions({"local_flag"}) : input[i] = id}

LastLocalMatch(id) ==
    CHOOSE i \in LocalMatches(id) : \A j \in LocalMatches(id) : j <= i

\* the step matches again, as a local flag, a flag the command already holds
MatchesAgain(id) ==
    /\ Matches(id)
    /\ Selected
    /\ id \notin DOMAIN global_flags
    /\ id \in DOMAIN command[1].parsed_flags

\* C19: the returned parsed-flag map has one entry for each name matched as
\* a local flag, however often it was matched, and the entry's value is the
\* one that came with the last match (None for a flag that takes none); a
\* repeated match is a step like the first: it fails only for want of a
\* value, and otherwise replaces the entry and the parse goes on.
C19_LastOccurrenceWins ==
    /\ [](result.tag = "ok" =>
            /\ DOMAIN Returned.parsed_flags =
                  {input[i] : i \in Positions({"local_flag"})}
            /\ \A id \in DOMAIN Returned.parsed_flags :
                  Returned.parsed_flags[id] =
                      [FlagNew(id) EXCEPT !.positional_val =
                          IF Returned.flags[id].positional
                          THEN Some(input[LastLocalMatch(id) + 1])
                          ELSE None])
    /\ [][\A id \in Tokens : MatchesAgain(id) =>
            IF command[1].flags[id].positional /\ Tail(args) = <<>>
            THEN result' = Err("MissingPositional", None)
            ELSE /\ result' = result
                 /\ pc' = pc
                 /\ DOMAIN command'[1].parsed_flags =
                       DOMAIN command[1].parsed_flags
                 /\ command'[1].parsed_flags[id].positional_val =
                       IF command[1].flags[id].positional
                       THEN Some(args[2]) ELSE None]_vars

\* C19's case: a local flag was matched twice with different values, and
\* the returned command holds the second
C19_Witness ==
    /\ result.tag = "ok"
    /\ \E id \in DOMAIN Returned.parsed_flags :
          \E i, j \in LocalMatches(id) :
              /\ i < j
              /\ j = LastLocalMatch(id)
              /\ Returned.flags[id].positional
              /\ input[i + 1] # input[j + 1]
              /\ Returned.parsed_flags[id].positional_val = Some(input[j + 1])

====
